---- MODULE Spec2Model ----
(***************************************************************************)
(* Model of the queue executor of src/imqueue/executor.py: one run of      *)
(* Executor.execute_queue (started by a 'start' message), the session      *)
(* workflow Executor.execute with take_exposures / take_darks /            *)
(* take_biases, the weather gate wait_until_good and the shutdown path     *)
(* finish / close.                                                         *)
(*                                                                         *)
(* The collaborators that are not part of the repository (telescope        *)
(* driver, scheduler, target resolver, pinpoint, database, broker) are     *)
(* modelled at the call sites: every answer they can give is drawn with    *)
(* \E, and every call may raise (the fault actions).                       *)
(***************************************************************************)
EXTENDS Integers, Sequences, FiniteSets, TLC

\* ---------------------------------------------------------------- bounds
NumSessions == 2      \* rows of the Session table
MaxCount    == 2      \* largest exposure_count of a request
MaxClosures == 1      \* unexpected dome closures during one run
MaxTicks    == 1      \* scheduler ticks that select no session, per run

\* ------------------------------------------------------ program constants
PollInterval   == 900      \* time.sleep(15*60)
WeatherCeiling == 14400    \* if elapsed_time >= 14400
LongWait       == 600      \* if wait > 10*60
DefaultNumbias == 5        \* config.get('queue').get('numbias') or 5
NoObject       == -1       \* if objid == -1
Immediate      == -1       \* if wait != -1

Ids == 1..NumSessions

\* the values config['queue']['numbias'] takes; 0 stands for an absent or
\* zero entry, which `or 5` replaces by the default
ConfigNumbias == {0, 1}

\* the waits the scheduler answers with, around the 10 minute threshold
WaitChoices == {Immediate, LongWait, LongWait + 1}

\* the filter flags of a request: the seven boolean columns of Session
FilterNames == <<"i", "r", "g", "u", "z", "h-alpha", "clear">>
FlagChoices ==
    { [i |-> FALSE, r |-> FALSE, g |-> FALSE, u |-> FALSE, z |-> FALSE,
       ha |-> FALSE, clear |-> FALSE],
      [i |-> TRUE, r |-> FALSE, g |-> FALSE, u |-> FALSE, z |-> FALSE,
       ha |-> FALSE, clear |-> TRUE] }

\* values of `location` in execute_queue
EmptyLocation == <<>>               \* ""   (object not visible)
NoneLocation  == <<"None">>         \* None (returned by the fault handler)

VARIABLES
    pc,          \* position of the single thread of control
    executed,    \* Session.executed as persisted in the database
    numbias,     \* self.numbias
    telescope,   \* self.telescope is not None
    connected,   \* the hardware interface has not been disconnected
    dome,        \* the enclosure is open
    sessions,    \* self.sessions, the working list (ids)
    objects,     \* objects, the (id, ra, dec) list given to the scheduler
    session,     \* the session picked by the loop (0: none)
    wait,        \* wait returned by the scheduler
    location,    \* location in execute_queue
    objid,       \* objid, the last answer of the scheduler (0: none yet)
    elapsed_time,\* wait_until_good: elapsed_time
    weather,     \* wait_until_good: weather, the last answer of weather_ok()
    wgRet,       \* wait_until_good: where the call returns to
    good_pointing,  \* execute: good_pointing
    exposure_count, \* execute: exposure_count of the running session
    filters,     \* execute: filters = parse_filters(session)
    fidx,        \* execute: position of the for loop over filters
    i,           \* take_exposures: i
    numdark,     \* take_darks: numdark
    nb,          \* take_biases: nb
    \* ---- history of the run, read by the properties only
    initially,   \* Session.executed as it was when the run began
    loaded,      \* the list load_sessions returned
    unresolved,  \* ids whose find_target raised
    published,   \* locations of the 'process' messages published
    finishCalls, \* number of calls of finish()
    staleOps,    \* finish() issued close_down/disconnect after a disconnect
    lateOps,     \* execute_queue/execute issued a hardware call after a disconnect
    opened,      \* open_dome was issued in this run
    ran,         \* ids execute() was called for
    faulted,     \* ids whose execute() ran its fault handler
    completed,   \* ids whose execute() returned the directory
    skipped,     \* ids whose execute() returned ""
    sci,         \* confirmed science frames, per filter taken so far
    attempts,    \* take_exposures: indices of the captures issued
    observed,    \* take_exposures: dome_open() after each capture
    confirmed,   \* take_exposures: indices confirmed by an open dome
    closures,    \* unexpected dome closures so far
    ticks,       \* scheduler ticks that selected no session
    schedCalls,  \* number of scheduler calls
    firstSched,  \* identifier answered by the first scheduler call (0: none yet)
    badPolls     \* wait_until_good: polls answered 'unsuitable' in this call

g_db     == <<executed, numbias, initially>>
g_hw     == <<telescope, connected, dome, opened, lateOps, closures>>
g_fin    == <<finishCalls, staleOps>>
g_queue  == <<sessions, objects, loaded, unresolved>>
g_pick   == <<session, wait, location, objid>>
g_gate   == <<elapsed_time, weather, wgRet, badPolls>>
g_locals == <<good_pointing, exposure_count, filters, fidx, i, numdark, nb>>
g_frames == <<sci, attempts, observed, confirmed>>
g_out    == <<ran, faulted, completed, skipped, published>>
g_sched  == <<ticks, schedCalls, firstSched>>

vars == <<pc, g_db, g_hw, g_fin, g_queue, g_pick, g_gate, g_locals, g_frames,
          g_out, g_sched>>

\* ------------------------------------------------------------- helpers
Range(s) == { s[k] : k \in 1..Len(s) }

\* variant: the element is left in the list
Remove_none(s, x) == s

\* list.remove(x): removes the first element equal to x
Remove(s, x) ==
    LET k == CHOOSE j \in 1..Len(s) : s[j] = x /\ \A m \in 1..(j-1) : s[m] # x
    IN  SubSeq(s, 1, k-1) \o SubSeq(s, k+1, Len(s))

\* the subsequence of s made of its elements that lie in S
Keep(s, S) == SelectSeq(s, LAMBDA x : x \in S)

\* ids 1..n in table order, as a sequence
RECURSIVE UpTo(_)
UpTo(n) == IF n = 0 THEN <<>> ELSE Append(UpTo(n-1), n)

\* dirname = remote_dir + '/' + '_'.join([date, username, target])
Dirname(s) == <<"remote_dir", s>>

\* parse_filters
parse_filters(flags) ==
    (IF flags.i THEN <<"i">> ELSE <<>>) \o
    (IF flags.r THEN <<"r">> ELSE <<>>) \o
    (IF flags.g THEN <<"g">> ELSE <<>>) \o
    (IF flags.u THEN <<"u">> ELSE <<>>) \o
    (IF flags.z THEN <<"z">> ELSE <<>>) \o
    (IF flags.ha THEN <<"h-alpha">> ELSE <<>>) \o
    (IF flags.clear THEN <<"clear">> ELSE <<>>)

\* self.numbias = config.get('queue').get('numbias') or 5
NumbiasOf(cfg) == IF cfg = 0 THEN DefaultNumbias ELSE cfg

Alive == pc \notin {"exit1", "crashed", "closed"}

\* load_sessions: query(Session).filter_by(executed = False).all()
load_sessions == Keep(UpTo(NumSessions), { s \in Ids : ~executed[s] })

\* ---------------------------------------------------------------- Init
Init ==
    /\ pc = "idle"
    /\ executed \in [Ids -> BOOLEAN]
    /\ initially = executed
    /\ \E cfg \in ConfigNumbias : numbias = NumbiasOf(cfg)
    /\ telescope = FALSE
    /\ connected = FALSE
    /\ dome = FALSE
    /\ sessions = <<>>
    /\ objects = <<>>
    /\ session = 0
    /\ wait = Immediate
    /\ location = EmptyLocation
    /\ objid = 0
    /\ elapsed_time = 0
    /\ weather = FALSE
    /\ wgRet = "none"
    /\ good_pointing = TRUE
    /\ exposure_count = 0
    /\ filters = <<>>
    /\ fidx = 1
    /\ i = 0
    /\ numdark = 0
    /\ nb = 0
    /\ loaded = <<>>
    /\ unresolved = {}
    /\ published = <<>>
    /\ finishCalls = 0
    /\ staleOps = FALSE
    /\ lateOps = FALSE
    /\ opened = FALSE
    /\ ran = {}
    /\ faulted = {}
    /\ completed = {}
    /\ skipped = {}
    /\ sci = <<>>
    /\ attempts = <<>>
    /\ observed = <<>>
    /\ confirmed = <<>>
    /\ closures = 0
    /\ ticks = 0
    /\ schedCalls = 0
    /\ firstSched = 0
    /\ badPolls = 0

\* a call of a method of self.telescope by execute_queue or execute
HwCall == lateOps' = (lateOps \/ ~connected)

\* the call self.wait_until_good() whose return continues at `ret`
CallWaitUntilGood(ret) ==
    /\ pc' = "wait_until_good"
    /\ wgRet' = ret
    /\ elapsed_time' = 0
    /\ weather' = FALSE
    /\ badPolls' = 0

\* ------------------------------------------------------------ finish()
\* if self.telescope is not None: close_down(); disconnect()
finish ==
    /\ finishCalls' = finishCalls + 1
    /\ IF telescope
       THEN /\ dome' = FALSE
            /\ connected' = FALSE
            /\ staleOps' = (staleOps \/ ~connected)
       ELSE UNCHANGED <<dome, connected, staleOps>>
    /\ UNCHANGED <<telescope, opened, lateOps, closures>>

\* the locals of wait_until_good, of execute and of the loop body after the
\* frame that holds them is left
DeadGate ==
    /\ elapsed_time' = 0
    /\ weather' = FALSE
    /\ wgRet' = "none"
    /\ badPolls' = 0

DeadBody ==
    /\ session' = 0
    /\ wait' = Immediate
    /\ location' = EmptyLocation
    /\ objid' = 0
    /\ good_pointing' = TRUE
    /\ exposure_count' = 0
    /\ filters' = <<>>
    /\ fidx' = 1
    /\ i' = 0
    /\ numdark' = 0
    /\ nb' = 0
    /\ sci' = <<>>
    /\ attempts' = <<>>
    /\ observed' = <<>>
    /\ confirmed' = <<>>

\* ------------------------------------------------------ process_message
\* msg.type == 'start': execute_queue() begins
ProcessStart ==
    /\ pc = "idle"
    /\ pc' = "acquire"
    /\ UNCHANGED <<g_db, g_hw, g_fin, g_queue, g_pick, g_gate, g_locals,
                   g_frames, g_out, g_sched>>

\* -------------------------------------------------------- execute_queue
\* self.telescope = telescope.Telescope(dryrun=dryrun); self.wait_until_good()
\* (the name dryrun is not bound in execute_queue: where nothing provides it
\* the statement raises, which is the step Uncaught at "acquire")
AcquireTelescope ==
    /\ pc = "acquire"
    /\ telescope' = TRUE
    /\ connected' = TRUE
    /\ CallWaitUntilGood("open")
    /\ UNCHANGED <<dome, opened, lateOps, closures>>
    /\ UNCHANGED <<g_db, g_fin, g_queue, g_pick, g_locals, g_frames, g_out,
                   g_sched>>

\* ------------------------------------------------------ wait_until_good
\* variant: the ceiling test written with > instead of >=
ceiling_reached_strict(elapsed) == elapsed > WeatherCeiling

\* if elapsed_time >= 14400
ceiling_reached(elapsed) == elapsed >= WeatherCeiling

\* One poll of weather_ok(); after an answer False the 15 minute sleep and
\* the test of the 4 hour ceiling, which ends the process by exit(1).
WaitUntilGood ==
    /\ pc = "wait_until_good"
    /\ HwCall
    /\ \E ok \in BOOLEAN :
         /\ weather' = ok
         /\ IF ok
            THEN /\ pc' = wgRet
                 /\ wgRet' = "none"
                 /\ elapsed_time' = 0
                 /\ badPolls' = 0
            ELSE /\ elapsed_time' = elapsed_time + PollInterval
                 /\ badPolls' = badPolls + 1
                 /\ wgRet' = wgRet
                 /\ pc' = IF ceiling_reached(elapsed_time')
                          THEN "exit1" ELSE "wait_until_good"
    /\ UNCHANGED <<telescope, connected, dome, opened, closures>>
    /\ UNCHANGED <<g_db, g_fin, g_queue, g_pick, g_locals, g_frames, g_out,
                   g_sched>>

\* ------------------------------------------- execute_queue, continued
\* self.telescope.open_dome(); self.telescope.keep_open(36000)
OpenDome ==
    /\ pc = "open"
    /\ HwCall
    /\ dome' = TRUE
    /\ opened' = TRUE
    /\ pc' = "load"
    /\ UNCHANGED <<telescope, connected, closures>>
    /\ UNCHANGED <<g_db, g_fin, g_queue, g_pick, g_gate, g_locals, g_frames,
                   g_out, g_sched>>

\* self.sessions = self.load_sessions(); the notification that follows
\* reads self.session, which raises unless the base class provides it (the
\* step Uncaught at "load")
LoadSessions ==
    /\ pc = "load"
    /\ sessions' = load_sessions
    /\ loaded' = load_sessions
    /\ pc' = "resolve"
    /\ UNCHANGED <<objects, unresolved>>
    /\ UNCHANGED <<g_db, g_hw, g_fin, g_pick, g_gate, g_locals, g_frames,
                   g_out, g_sched>>

\* variant: the except branch appends the session as well
build_objects_all(sess, found) == sess

\* the list objects built from the working list `sess`, `found` being the
\* ids for which target.find_target returns coordinates
build_objects(sess, found) == Keep(sess, found)

\* endtime; the for loop over self.sessions that builds objects
BuildObjects ==
    /\ pc = "resolve"
    /\ \E found \in SUBSET Range(sessions) :
         /\ objects' = build_objects(sessions, found)
         /\ unresolved' = Range(sessions) \ found
    /\ pc' = "loop"
    /\ UNCHANGED <<sessions, loaded>>
    /\ UNCHANGED <<g_db, g_hw, g_fin, g_pick, g_gate, g_locals, g_frames,
                   g_out, g_sched>>

\* variant: the identifier looked up in the list as it was loaded
found_sessions_loaded(oid) == SelectSeq(loaded, LAMBDA x : x = oid)

\* found_sessions = list(filter(lambda x: x.id == objid, self.sessions))
found_sessions(oid) == SelectSeq(sessions, LAMBDA x : x = oid)

\* the identifiers schedule.schedule may answer, given the candidate list
schedule(candidates) == Range(candidates) \cup {NoObject}

\* variant: the answer compared with None instead of -1
no_further_work_none(oid) == FALSE

\* if objid == -1: break
no_further_work(oid) == oid = NoObject

\* the scheduler calls a run with at most MaxTicks idle passes can make; the
\* count of calls stops there when the passes are not limited
MaxCalls == NumSessions + MaxTicks + 1

\* One pass of the while loop up to the choice of the session: the call of
\* the scheduler, the break on -1 and the continue on an unknown identifier.
SchedulePass(bounded) ==
    /\ pc = "loop"
    /\ sessions # <<>>
    /\ \E oid \in schedule(objects), w \in WaitChoices :
         /\ objid' = oid
         /\ schedCalls' = IF bounded \/ schedCalls < MaxCalls
                          THEN schedCalls + 1 ELSE schedCalls
         /\ firstSched' = IF schedCalls = 0 THEN oid ELSE firstSched
         /\ IF no_further_work(oid)
            THEN /\ pc' = "finish"
                 /\ UNCHANGED <<ticks, session, wait, location>>
            ELSE IF Len(found_sessions(oid)) # 1
                 THEN /\ bounded => ticks < MaxTicks
                      /\ ticks' = IF bounded THEN ticks + 1
                                   ELSE (ticks + 1) % (MaxTicks + 1)
                      /\ pc' = "loop"
                      /\ UNCHANGED <<session, wait, location>>
                 ELSE /\ session' = found_sessions(oid)[1]
                      /\ wait' = w
                      /\ location' = EmptyLocation
                      /\ pc' = IF w # Immediate THEN "sleep" ELSE "execute"
                      /\ UNCHANGED ticks
    /\ UNCHANGED <<g_db, g_hw, g_fin, g_queue, g_gate, g_locals, g_frames,
                   g_out>>

\* the pass as the runs of Spec take it: at most MaxTicks passes select no
\* session
Schedule == SchedulePass(TRUE)

\* the pass with no limit on the passes that select no session; ticks then
\* counts them modulo MaxTicks + 1
ScheduleAgain == SchedulePass(FALSE)

\* the while condition fails: the working list is empty
LoopExit ==
    /\ pc = "loop"
    /\ sessions = <<>>
    /\ pc' = "finish"
    /\ UNCHANGED <<g_db, g_hw, g_fin, g_queue, g_pick, g_gate, g_locals,
                   g_frames, g_out, g_sched>>

\* if wait != -1: close down when wait > 10*60 and the dome is open; sleep
Sleep ==
    /\ pc = "sleep"
    /\ IF wait > LongWait
       THEN /\ HwCall
            /\ dome' = FALSE
       ELSE UNCHANGED <<lateOps, dome>>
    /\ pc' = "execute"
    /\ UNCHANGED g_pick
    /\ UNCHANGED <<telescope, connected, opened, closures>>
    /\ UNCHANGED <<g_db, g_fin, g_queue, g_gate, g_locals, g_frames, g_out,
                   g_sched>>

\* --------------------------------------------------------------- execute
\* the call self.execute(session, ra, dec) up to the first wait_until_good:
\* dirname, make_dir, basename
Execute ==
    /\ pc = "execute"
    /\ HwCall
    /\ ran' = ran \cup {session}
    /\ CallWaitUntilGood("slew")
    /\ UNCHANGED <<faulted, completed, skipped, published>>
    /\ UNCHANGED <<telescope, connected, dome, opened, closures>>
    /\ UNCHANGED <<g_db, g_fin, g_queue, g_pick, g_locals, g_frames, g_sched>>

\* if dome_open() is False: open_dome(); goto(ra, dec); return "" when the
\* object is not visible
Slew ==
    /\ pc = "slew"
    /\ HwCall
    /\ dome' = TRUE
    /\ opened' = (opened \/ ~dome)
    /\ \E visible \in BOOLEAN :
         IF visible
         THEN /\ pc' = "pinpoint"
              /\ UNCHANGED <<location, skipped>>
         ELSE /\ location' = EmptyLocation
              /\ skipped' = skipped \cup {session}
              /\ pc' = "outcome"
    /\ wait' = Immediate
    /\ UNCHANGED <<session, objid>>
    /\ UNCHANGED <<ran, faulted, completed, published>>
    /\ UNCHANGED <<telescope, connected, closures>>
    /\ UNCHANGED <<g_db, g_fin, g_queue, g_gate, g_locals, g_frames, g_sched>>

\* variant: a pinpoint correction that fails ends the session
after_pinpoint_fatal(good) == IF good THEN "filter" ELSE "outcome"

\* if not good_pointing: the failure is logged, the session goes on
after_pinpoint(good) == "filter"

\* good_pointing = pinpoint.point(...); exposure_time, exposure_count,
\* binning; filters = self.parse_filters(session)
Pinpoint ==
    /\ pc = "pinpoint"
    /\ HwCall
    /\ good_pointing' \in BOOLEAN
    /\ exposure_count' \in 1..MaxCount
    /\ \E flags \in FlagChoices : filters' = parse_filters(flags)
    /\ fidx' = 1
    /\ pc' = after_pinpoint(good_pointing')
    /\ UNCHANGED <<i, numdark, nb>>
    /\ UNCHANGED <<telescope, connected, dome, opened, closures>>
    /\ UNCHANGED <<g_db, g_fin, g_queue, g_pick, g_gate, g_frames, g_out,
                   g_sched>>

\* for filt in filters: self.wait_until_good(); after the last filter the
\* loop is left
FilterLoop ==
    /\ pc = "filter"
    /\ IF fidx <= Len(filters)
       THEN /\ CallWaitUntilGood("reopen")
       ELSE /\ pc' = "clear"
            /\ UNCHANGED g_gate
    /\ good_pointing' = TRUE
    /\ attempts' = <<>>
    /\ observed' = <<>>
    /\ confirmed' = <<>>
    /\ UNCHANGED <<sci, exposure_count, filters, fidx, i, numdark, nb>>
    /\ UNCHANGED <<g_db, g_hw, g_fin, g_queue, g_pick, g_out, g_sched>>

\* if dome_open() is False: open_dome(); pinpoint.point(...);
\* enable_tracking()
Reopen ==
    /\ pc = "reopen"
    /\ HwCall
    /\ dome' = TRUE
    /\ opened' = (opened \/ ~dome)
    /\ pc' = "change_filter"
    /\ UNCHANGED <<telescope, connected, closures>>
    /\ UNCHANGED <<g_db, g_fin, g_queue, g_pick, g_gate, g_locals, g_frames,
                   g_out, g_sched>>

\* -------------------------------------------------------- take_exposures
\* self.telescope.change_filter(filt); i = 0
ChangeFilter ==
    /\ pc = "change_filter"
    /\ HwCall
    /\ i' = 0
    /\ sci' = Append(sci, 0)
    /\ pc' = "expose"
    /\ UNCHANGED <<attempts, observed, confirmed>>
    /\ UNCHANGED <<good_pointing, exposure_count, filters, fidx, numdark, nb>>
    /\ UNCHANGED <<telescope, connected, dome, opened, closures>>
    /\ UNCHANGED <<g_db, g_fin, g_queue, g_pick, g_gate, g_out, g_sched>>

\* while i < count: take_exposure(filename, ...); when the loop is left
\* take_exposures returns and the for loop of execute goes to the next filter
Expose ==
    /\ pc = "expose"
    /\ IF i < exposure_count
       THEN /\ HwCall
            /\ attempts' = Append(attempts, i)
            /\ pc' = "check"
            /\ UNCHANGED fidx
       ELSE /\ fidx' = fidx + 1
            /\ pc' = "filter"
            /\ UNCHANGED <<lateOps, attempts>>
    /\ UNCHANGED <<sci, observed, confirmed>>
    /\ UNCHANGED <<good_pointing, exposure_count, filters, i, numdark, nb>>
    /\ UNCHANGED <<telescope, connected, dome, opened, closures>>
    /\ UNCHANGED <<g_db, g_fin, g_queue, g_pick, g_gate, g_out, g_sched>>

\* variant: i += 1 on both branches, the interrupted frame is skipped
next_index_skip(k, open) == k + 1

\* the value of i after the dome test that follows a capture
next_index(k, open) == IF open THEN k + 1 ELSE k

\* if dome_open() is False: open_dome(); continue   else: i += 1
CheckDome ==
    /\ pc = "check"
    /\ HwCall
    /\ i' = next_index(i, dome)
    /\ observed' = Append(observed, dome)
    /\ IF dome
       THEN /\ confirmed' = Append(confirmed, i)
            /\ sci' = [sci EXCEPT ![Len(sci)] = @ + 1]
            /\ UNCHANGED <<dome, opened>>
       ELSE /\ dome' = TRUE
            /\ opened' = TRUE
            /\ UNCHANGED <<confirmed, sci>>
    /\ pc' = "expose"
    /\ UNCHANGED attempts
    /\ UNCHANGED <<good_pointing, exposure_count, filters, fidx, numdark, nb>>
    /\ UNCHANGED <<telescope, connected, closures>>
    /\ UNCHANGED <<g_db, g_fin, g_queue, g_pick, g_gate, g_out, g_sched>>

\* ------------------------------------------- execute: calibration frames
\* self.telescope.change_filter('clear')
ClearFilter ==
    /\ pc = "clear"
    /\ HwCall
    /\ numdark' = 0
    /\ pc' = "darks"
    /\ UNCHANGED <<good_pointing, exposure_count, filters, fidx, i, nb>>
    /\ UNCHANGED <<telescope, connected, dome, opened, closures>>
    /\ UNCHANGED <<g_db, g_fin, g_queue, g_pick, g_gate, g_frames, g_out,
                   g_sched>>

\* take_darks: for numdark in range(0, count): take_dark(...)
TakeDarks ==
    /\ pc = "darks"
    /\ IF numdark < exposure_count
       THEN /\ HwCall
            /\ numdark' = numdark + 1
            /\ pc' = "darks"
            /\ UNCHANGED nb
       ELSE /\ nb' = 0
            /\ pc' = "biases"
            /\ UNCHANGED <<lateOps, numdark>>
    /\ UNCHANGED <<good_pointing, exposure_count, filters, fidx, i>>
    /\ UNCHANGED <<telescope, connected, dome, opened, closures>>
    /\ UNCHANGED <<g_db, g_fin, g_queue, g_pick, g_gate, g_frames, g_out,
                   g_sched>>

\* variant: numbias added to the count instead of multiplying it
bias_count_sum(count, n) == count + n

\* the number of bias frames of take_biases(basename, exp_time, count, ...)
bias_count(count, n) == count * n

\* take_biases: for nb in range(0, count*numbias): take_bias(...); then
\* execute returns dirname
TakeBiases ==
    /\ pc = "biases"
    /\ IF nb < bias_count(exposure_count, numbias)
       THEN /\ HwCall
            /\ nb' = nb + 1
            /\ pc' = "biases"
            /\ UNCHANGED <<location, completed>>
       ELSE /\ location' = Dirname(session)
            /\ completed' = completed \cup {session}
            /\ pc' = "outcome"
            /\ UNCHANGED <<lateOps, nb>>
    /\ UNCHANGED <<session, wait, objid>>
    /\ UNCHANGED <<ran, faulted, skipped, published>>
    /\ UNCHANGED <<good_pointing, exposure_count, filters, fidx, i, numdark>>
    /\ UNCHANGED <<telescope, connected, dome, opened, closures>>
    /\ UNCHANGED <<g_db, g_fin, g_queue, g_gate, g_frames, g_sched>>

\* ------------------------------- execute_queue: the outcome of execute
\* variant: the test of location left out
successful_always(loc) == TRUE

\* `if location != "":`
successful(loc) == loc # EmptyLocation

\* if location != "": publish {'type': 'process', 'location': location};
\* otherwise self.sessions.remove(session)
Outcome ==
    /\ pc = "outcome"
    /\ IF successful(location)
       THEN /\ published' = Append(published, location)
            /\ pc' = "commit"
            /\ UNCHANGED <<sessions, g_pick, g_locals, g_frames>>
       ELSE /\ sessions' = Remove(sessions, session)
            /\ pc' = "loop"
            /\ DeadBody
            /\ UNCHANGED published
    /\ UNCHANGED <<objects, loaded, unresolved>>
    /\ UNCHANGED <<ran, faulted, completed, skipped>>
    /\ UNCHANGED <<g_db, g_hw, g_fin, g_gate, g_sched>>

\* session.executed = True; self.dbsession.commit();
\* self.sessions.remove(session)
Commit ==
    /\ pc = "commit"
    /\ executed' = [executed EXCEPT ![session] = TRUE]
    /\ sessions' = Remove(sessions, session)
    /\ pc' = "loop"
    /\ DeadBody
    /\ UNCHANGED <<numbias, initially, objects, loaded, unresolved>>
    /\ UNCHANGED <<g_hw, g_fin, g_gate, g_out, g_sched>>

\* ------------------------------------------------------------- handlers
\* the statements of the try block of execute that call a collaborator
InTry ==
    \/ pc \in {"slew", "pinpoint", "reopen", "change_filter", "check", "clear"}
    \/ pc = "wait_until_good" /\ wgRet \in {"slew", "reopen"}
    \/ pc = "expose" /\ i < exposure_count
    \/ pc = "darks" /\ numdark < exposure_count
    \/ pc = "biases" /\ nb < bias_count(exposure_count, numbias)

\* what the handler of execute does after finish()
fault_return == [to |-> "outcome", value |-> NoneLocation]

\* except Exception in execute: self.finish(); return None
ExecuteFault ==
    /\ InTry
    /\ finish
    /\ faulted' = faulted \cup {session}
    /\ location' = fault_return.value
    /\ pc' = fault_return.to
    /\ DeadGate
    /\ wait' = Immediate
    /\ UNCHANGED <<session, objid>>
    /\ UNCHANGED <<ran, completed, skipped, published>>
    /\ UNCHANGED <<g_db, g_queue, g_locals, g_frames, g_sched>>

\* except Exception in execute_queue: self.finish(); exit(1). Raised by the
\* statements of execute before its try block (make_dir), by publish and
\* by commit.
LoopFault ==
    /\ \/ pc \in {"execute", "commit"}
       \/ pc = "outcome" /\ successful(location)
    /\ finish
    /\ pc' = "exit1"
    /\ DeadGate
    /\ DeadBody
    /\ UNCHANGED <<g_db, g_queue, g_out, g_sched>>

\* an exception raised outside both try blocks leaves execute_queue
Uncaught ==
    /\ \/ pc \in {"acquire", "open", "load", "execute"}
       \/ pc = "sleep" /\ wait > LongWait
       \/ pc = "loop" /\ sessions # <<>>
       \/ pc = "wait_until_good" /\ wgRet = "open"
    /\ pc' = "crashed"
    /\ DeadGate
    /\ DeadBody
    /\ UNCHANGED <<g_db, g_hw, g_fin, g_queue, g_out, g_sched>>

\* the end of execute_queue: self.finish(); return True
Finish ==
    /\ pc = "finish"
    /\ finish
    /\ pc' = "returned"
    /\ UNCHANGED <<g_db, g_queue, g_pick, g_gate, g_locals, g_frames, g_out,
                   g_sched>>

\* close(): the server received a shutdown signal
Close ==
    /\ Alive
    /\ finish
    /\ pc' = "closed"
    /\ DeadGate
    /\ DeadBody
    /\ UNCHANGED <<g_db, g_queue, g_out, g_sched>>

\* ---------------------------------------------------------- environment
\* the enclosure closes on its own while the run is under way
DomeCloses ==
    /\ pc \notin {"idle", "acquire", "returned", "exit1", "crashed", "closed"}
    /\ dome
    /\ closures < MaxClosures
    /\ dome' = FALSE
    /\ closures' = closures + 1
    /\ UNCHANGED <<telescope, connected, opened, lateOps>>
    /\ UNCHANGED <<pc, g_db, g_fin, g_queue, g_pick, g_gate, g_locals,
                   g_frames, g_out, g_sched>>

Next ==
    \/ ProcessStart
    \/ AcquireTelescope
    \/ WaitUntilGood
    \/ OpenDome
    \/ LoadSessions
    \/ BuildObjects
    \/ Schedule
    \/ LoopExit
    \/ Sleep
    \/ Execute
    \/ Slew
    \/ Pinpoint
    \/ FilterLoop
    \/ Reopen
    \/ ChangeFilter
    \/ Expose
    \/ CheckDome
    \/ ClearFilter
    \/ TakeDarks
    \/ TakeBiases
    \/ Outcome
    \/ Commit
    \/ ExecuteFault
    \/ LoopFault
    \/ Uncaught
    \/ Finish
    \/ Close
    \/ DomeCloses

Spec == Init /\ [][Next]_vars

\* The run with no limit on the scheduler passes.  The interpreter keeps
\* running the thread of execute_queue: a step is taken whenever one is
\* possible.
NextLive ==
    \/ ProcessStart
    \/ AcquireTelescope
    \/ WaitUntilGood
    \/ OpenDome
    \/ LoadSessions
    \/ BuildObjects
    \/ ScheduleAgain
    \/ LoopExit
    \/ Sleep
    \/ Execute
    \/ Slew
    \/ Pinpoint
    \/ FilterLoop
    \/ Reopen
    \/ ChangeFilter
    \/ Expose
    \/ CheckDome
    \/ ClearFilter
    \/ TakeDarks
    \/ TakeBiases
    \/ Outcome
    \/ Commit
    \/ ExecuteFault
    \/ LoopFault
    \/ Uncaught
    \/ Finish
    \/ Close
    \/ DomeCloses

LiveSpec == Init /\ [][NextLive]_vars /\ WF_vars(NextLive)

\* =================================================================
\* Properties
\* =================================================================
Running == pc \notin {"idle", "returned", "exit1", "crashed", "closed"}

\* the frames execute() plans for the running session
AllFramesCaptured ==
    /\ sci = [k \in 1..Len(filters) |-> exposure_count]
    /\ numdark = exposure_count
    /\ nb = exposure_count * numbias

\* the number of messages published with location loc
Messages(loc) == Cardinality({ k \in 1..Len(published) : published[k] = loc })

\* the number of dome tests among the first n of take_exposures that found
\* the dome open
OpenSeen(n) == Cardinality({ j \in 1..n : observed[j] })

\* C1: the persisted executed flag of a request changes only from false to
\* true, and only for the session whose execute() captured every planned
\* frame and returned the storage directory; a session whose execute() hit
\* a fault is not marked.
C1_ExecutedOnlyAfterFullCapture ==
    [][\A s \in Ids :
         executed'[s] # executed[s] =>
            /\ ~executed[s]
            /\ executed'[s]
            /\ s = session
            /\ s \in completed
            /\ s \notin faulted
            /\ location = Dirname(s)
            /\ AllFramesCaptured]_vars

\* C2: once execute() has run its fault handler the run is over: no further
\* scheduler call, no further session, no 'process' message, and the faulted
\* request keeps executed = false.
C2_FaultEndsTheRun ==
    [][faulted # {} =>
         /\ schedCalls' = schedCalls
         /\ ran' = ran
         /\ published' = published
         /\ \A s \in faulted : ~executed'[s]]_vars

\* C3: whenever the engine has stopped after the telescope handle was
\* acquired (return, exit(1), shutdown signal), finish() has run, the
\* enclosure is closed and the hardware is disconnected.
C3_ReleasedOnEveryExit ==
    (telescope /\ pc \in {"returned", "exit1", "closed"}) =>
        (finishCalls >= 1 /\ ~dome /\ ~connected)

\* C4: when every poll of the first wait_until_good of execute_queue
\* answered unsuitable for 4 hours, the process has ended with exit(1), the
\* dome was never opened, no session was loaded or run and no request was
\* marked executed.
C4_BadWeatherBeforeStart ==
    (wgRet = "open" /\ badPolls * PollInterval >= WeatherCeiling) =>
        /\ pc = "exit1"
        /\ ~opened
        /\ ~dome
        /\ loaded = <<>>
        /\ sessions = <<>>
        /\ ran = {}
        /\ executed = initially

C4_Witness ==
    /\ pc = "exit1"
    /\ wgRet = "open"
    /\ badPolls * PollInterval = WeatherCeiling
    /\ \E s \in Ids : ~initially[s]

\* C5: in take_exposures every capture carries the index that equals the
\* number of captures so far that were followed by an open dome (so the index
\* advances only after such a capture and a capture followed by a closed
\* dome is repeated with the same index), and on return the confirmed frames
\* are exactly 0..count-1, each once.
C5_RetrySameFrame ==
    pc \in {"expose", "check", "filter"} =>
        /\ Len(attempts) = Len(observed) + (IF pc = "check" THEN 1 ELSE 0)
        /\ \A k \in 1..Len(attempts) : attempts[k] = OpenSeen(k - 1)
        /\ i = OpenSeen(Len(observed))
        /\ confirmed = [k \in 1..i |-> k - 1]
        /\ (pc = "filter" /\ fidx > 1) =>
              /\ i = exposure_count
              /\ confirmed = [k \in 1..exposure_count |-> k - 1]

C5_Witness ==
    /\ pc = "filter"
    /\ fidx > 1
    /\ exposure_count = MaxCount
    /\ Len(confirmed) = exposure_count
    /\ \E j \in 1..Len(observed) : ~observed[j] /\ j < Len(observed)

\* C6: every 'process' message carries the directory of a session whose
\* execute() returned it, and a session that reached Completed and whose
\* loop body has ended has executed = true and exactly one such message.
C6_ProcessMessageForCompleted ==
    /\ \A k \in 1..Len(published) :
          \E s \in completed : published[k] = Dirname(s)
    /\ Running =>
          \A s \in completed :
             s # session => (executed[s] /\ Messages(Dirname(s)) = 1)

\* C7: when goto returns False, execute() returns "" without having taken a
\* frame or run finish(); execute_queue then removes the request from the
\* working list, leaves executed and the published messages as they are,
\* does not run finish() and is back at the head of the loop.
C7_NotVisibleIsSkipped ==
    [][/\ (pc = "slew" /\ skipped' # skipped) =>
            /\ pc' = "outcome"
            /\ location' = EmptyLocation
            /\ finishCalls' = finishCalls
            /\ sci' = <<>> /\ attempts' = <<>> /\ numdark' = 0 /\ nb' = 0
       /\ (pc = "outcome" /\ location = EmptyLocation
             /\ pc' \notin {"outcome", "closed"}) =>
            /\ pc' = "loop"
            /\ session \in Range(sessions)
            /\ sessions' = Remove(sessions, session)
            /\ executed' = executed
            /\ ~executed[session]
            /\ published' = published
            /\ finishCalls' = finishCalls]_vars

C7_Witness ==
    /\ skipped # {}
    /\ pc = "execute"
    /\ session \notin skipped
    /\ \A s \in skipped : ~executed[s] /\ s \notin Range(sessions)

\* C8: a request whose find_target raised is not in the list given to the
\* scheduler, is never run by execute() and keeps executed = false.
C8_UnresolvedNeverScheduled ==
    \A s \in unresolved :
        /\ s \notin Range(objects)
        /\ s \notin ran
        /\ s # session
        /\ ~executed[s]

C8_Witness ==
    /\ unresolved # {}
    /\ completed # {}
    /\ schedCalls >= 2

\* C9: when the first scheduler call answers -1 the loop ends normally: no
\* second call, no session run, no request marked, nothing published, and
\* execute_queue returns after exactly one finish() with the enclosure
\* closed and the hardware disconnected.
C9_FirstAnswerNone ==
    firstSched = NoObject =>
        /\ pc \in {"finish", "returned", "closed"}
        /\ schedCalls = 1
        /\ ran = {}
        /\ executed = initially
        /\ published = <<>>
        /\ pc = "finish" => finishCalls = 0
        /\ pc = "returned" => (finishCalls = 1 /\ ~dome /\ ~connected)

C9_Witness ==
    /\ firstSched = NoObject
    /\ pc = "returned"
    /\ sessions # <<>>

\* C10: a call of finish() leaves the enclosure closed and the hardware
\* disconnected, and a later call issues no close_down or disconnect
\* against the interface that is already disconnected.
C10_FinishIdempotent ==
    [][(finishCalls' > finishCalls /\ telescope) =>
          /\ ~dome'
          /\ ~connected'
          /\ ~staleOps']_vars

\* C11: a session that completes has issued exactly exposure_count darks
\* (indices 0..exposure_count-1) and exactly exposure_count*numbias biases
\* (indices 0..exposure_count*numbias-1); no dark is issued before the last
\* science exposure of the last enabled filter, no bias before the last
\* dark, and the directory is returned only after the last bias.
C11_DarksThenBiases ==
    /\ numdark > 0 =>
         /\ pc \in {"darks", "biases", "outcome", "commit"}
         /\ numdark <= exposure_count
         /\ fidx = Len(filters) + 1
         /\ Len(sci) = Len(filters)
         /\ \A k \in 1..Len(sci) : sci[k] = exposure_count
    /\ nb > 0 =>
         /\ pc \in {"biases", "outcome", "commit"}
         /\ nb <= exposure_count * numbias
         /\ numdark = exposure_count
    /\ (session \in completed /\ pc \in {"outcome", "commit"}) =>
         /\ numdark = exposure_count
         /\ nb = exposure_count * numbias
         /\ location = Dirname(session)
    /\ (session # 0 /\ location = Dirname(session)) => session \in completed

C11_Witness ==
    /\ pc = "outcome"
    /\ session \in completed
    /\ exposure_count = MaxCount
    /\ numbias = DefaultNumbias
    /\ nb = MaxCount * DefaultNumbias
    /\ filters # <<>>

\* C12: at every scheduler call every identifier of the candidate list
\* given to the scheduler belongs to a request still in the working list: a
\* request completed or skipped in this run is no longer offered.
C12_CandidatesAreCurrent ==
    (pc = "loop" /\ sessions # <<>>) => Range(objects) \subseteq Range(sessions)

\* C13: a scheduler call whose answer matches no request, or more than one
\* request, of the working list changes nothing: no sleep, no dome
\* operation, no session run, no request marked executed, nothing
\* published, the working list as it was; the loop is back at its head with
\* the next scheduler call.
C13_UnknownIdChangesNothing ==
    [][(/\ pc = "loop"
        /\ schedCalls' = schedCalls + 1
        /\ objid' # NoObject
        /\ Cardinality({k \in 1..Len(sessions) : sessions[k] = objid'}) # 1)
       => /\ pc' = "loop"
          /\ sessions' # <<>>
          /\ UNCHANGED <<session, wait, location>>
          /\ UNCHANGED <<g_db, g_hw, g_fin, g_queue, g_gate, g_locals,
                         g_frames, g_out>>]_vars

C13_Witness ==
    /\ pc = "loop"
    /\ ticks > 0
    /\ objid \in Range(objects)
    /\ objid \notin Range(sessions)
    /\ sessions # <<>>

\* C14: when the scheduler answers a wait other than -1 the loop sleeps; a
\* wait above 600 s leaves the enclosure closed when the sleep starts, and
\* the slew of the selected session is then issued with the enclosure open
\* again and the hardware usable; a wait of at most 600 s does not operate
\* the enclosure before the sleep; a wait of -1 goes to execute() with no
\* sleep.
C14_SleepClosesSlewReopens ==
    [][/\ (pc = "loop" /\ session' # 0) =>
            pc' = IF wait' = Immediate THEN "execute" ELSE "sleep"
       /\ (pc = "sleep" /\ pc' = "execute" /\ wait > LongWait) => ~dome'
       /\ (pc = "sleep" /\ pc' = "execute" /\ wait <= LongWait) =>
            UNCHANGED g_hw
       /\ (/\ pc = "slew"
           /\ wait > LongWait
           /\ (pc' = "pinpoint" \/ skipped' # skipped)) =>
            (dome' /\ connected')]_vars

\* C15: in the capture retry, a capture found with the enclosure closed is
\* followed by the weather gate before the frame is captured again, and the
\* repeated capture is issued with the enclosure open.
C15_RetryRevalidates ==
    [][/\ (pc = "check" /\ ~dome /\ pc' \notin {"outcome", "closed"}) =>
            pc' = "wait_until_good"
       /\ (/\ pc = "expose"
           /\ pc' = "check"
           /\ observed # <<>>
           /\ ~observed[Len(observed)]) => dome]_vars

\* C16: at every scheduler call the working list holds only requests whose
\* executed flag is false and only requests of the list loaded at the start
\* of the run; after the load the list changes only by the removal of the
\* request whose session just returned, never by an insertion.
C16_WorkingListOnlyShrinks ==
    [][/\ pc' = "loop" =>
            \A s \in Range(sessions') :
                ~executed'[s] /\ s \in Range(loaded')
       /\ (pc # "load" /\ sessions' # sessions) =>
            /\ pc \in {"outcome", "commit"}
            /\ session \in Range(sessions)
            /\ Range(sessions') = Range(sessions) \ {session}
            /\ Len(sessions') = Len(sessions) - 1]_vars

C16_Witness ==
    /\ pc = "loop"
    /\ sessions # <<>>
    /\ Len(sessions) < Len(loaded)
    /\ \E s \in Ids : executed[s] /\ ~initially[s]

\* the largest number of sleeps of one call of wait_until_good
MaxSleeps == WeatherCeiling \div PollInterval

C18_FailedPinpointGoesOn ==
    [][/\ (pc = "pinpoint" /\ ~good_pointing') =>
            /\ pc' = "filter"
            /\ UNCHANGED <<finishCalls, faulted, skipped, location>>
       /\ (pc = "filter" /\ ~good_pointing /\ finishCalls' = finishCalls
              /\ pc' # pc) =>
            pc' = IF filters # <<>> THEN "wait_until_good" ELSE "clear"
       /\ (pc = "reopen" /\ finishCalls' = finishCalls /\ pc' # pc) =>
            pc' = "change_filter"
       /\ faulted' # faulted => finishCalls' = finishCalls + 1]_vars

C18_Witness ==
    /\ pc = "filter"
    /\ ~good_pointing
    /\ filters # <<>>
    /\ finishCalls = 0
    /\ faulted = {}

\* C19: once finish() has closed the enclosure and disconnected the
\* hardware, execute_queue and execute() issue no further hardware
\* operation in that run.
C19_NoHardwareAfterFinish == ~lateOps

\* C20: the scheduling loop always terminates: with a scheduler that
\* answers each call with -1 or an identifier of the candidate list it was
\* given, the run reaches the final finish() and returns, or the process
\* ends (exit(1), an uncaught exception, the signal handler); the pass that
\* finds no session for the identifier is not repeated for ever.
C20_LoopTerminates == <>(pc \in {"returned", "exit1", "crashed", "closed"})
====
